---- MODULE Spec2Model ----
(***************************************************************************)
(* The twelve sample scripts of python-samples/, each one a linear main()  *)
(* that reads APIFY_API_TOKEN, builds an ApifyClient and issues remote     *)
(* calls.  The remote service is the environment: it accepts or rejects    *)
(* the token, lets a call return or raise, and moves the run through its   *)
(* statuses.                                                               *)
(***************************************************************************)
EXTENDS Integers, Sequences, FiniteSets, TLC

\* ------------------------------------------------------------------ bounds
MaxTokenLen == 1
MaxItems == 2
FmtWindow == 60

\* ------------------------------------------------------- program constants
max_wait == 60
poll_interval == 2

Scripts == 1..12
ActorScripts == 2..8

Chars == {"a", "b"}

SeqsUpTo(S, n) == UNION {[1..k -> S] : k \in 0..n}

TokenValues == SeqsUpTo(Chars, MaxTokenLen)

\* os.environ restricted to APIFY_API_TOKEN: unset, or set to a string
Environs ==
    {[present |-> FALSE, value |-> <<>>]}
        \cup {[present |-> TRUE, value |-> v] : v \in TokenValues}

NoneVal == [none |-> TRUE, str |-> <<>>]

\* os.environ.get("APIFY_API_TOKEN"): the string, or None when unset
EnvironGet(e) ==
    IF e.present THEN [none |-> FALSE, str |-> e.value] ELSE NoneVal

\* a bug that tests only for None and lets the empty string through
NotM(t) == t.none

\* Python's `not api_token`: None and "" are both falsy
Not(t) == t.none \/ Len(t.str) = 0

\* a bug that prints the error and forgets sys.exit(1)
CheckTokenNextM(t) == "client"

\* `if not api_token: ...; sys.exit(1)`: where main() goes after the check
CheckTokenNext(t) == IF Not(t) THEN "exited" ELSE "client"

\* ------------------------------------------------------------ run statuses
TerminalStatuses == {"SUCCEEDED", "FAILED", "ABORTED", "TIMED-OUT"}
TransientStatuses == {"READY", "RUNNING", "ABORTING", "TIMING-OUT"}
RunStatuses == TerminalStatuses \cup TransientStatuses

\* a service on which a finished run can be started again (resurrected)
StatusNextM(s) == RunStatuses

\* the service: a finished run stays as it is, an unfinished one may be
\* found in any status at the next fetch
StatusNext(s) == IF s \in TerminalStatuses THEN {s} ELSE RunStatuses

\* a bug that takes the -ING statuses for final ones
IsFinishedM(st) ==
    st \in {"SUCCEEDED", "FAILED", "ABORTED", "TIMED-OUT", "ABORTING", "TIMING-OUT"}

\* `status in ["SUCCEEDED", "FAILED", "ABORTED", "TIMED-OUT"]`
IsFinished(st) == st \in {"SUCCEEDED", "FAILED", "ABORTED", "TIMED-OUT"}

\* an off-by-one bug in the loop test
LoopCondM(e) == e <= max_wait

\* `while elapsed < max_wait`
LoopCond(e) == e < max_wait

\* `min(90, (elapsed / max_wait) * 100)`, as shown by the bar (whole percent)
ProgressEstimate(e) == IF (e * 100) \div max_wait < 90 THEN (e * 100) \div max_wait ELSE 90

\* ------------------------------------------------------------------- items
Missing == -1

\* a record of a result dataset, reduced to the field whose absence matters
Items == [reviewsCount : {Missing, 5}]
ItemSeqs == SeqsUpTo(Items, MaxItems)

\* a bug that renders the results whether or not there are any
ListTruthyM(l) == TRUE

\* `if items:` - a list is truthy when it is not empty
ListTruthy(l) == Len(l) > 0

\* what rendering the result section raises: items[0] on an empty list is an
\* IndexError; in script 08 f"{first.get('reviewsCount', 'N/A'):,}" is a
\* ValueError when the field is absent
RenderRaises(s, l) ==
    \/ Len(l) = 0
    \/ s = 8 /\ l[1].reviewsCount = Missing

\* the sections printed for a non-empty result set
RenderSections(s) ==
    IF s \in 5..8 THEN {"table", "aggregate", "detail"} ELSE {"table", "detail"}

\* --------------------------------------------------------------- programs
\* One entry per call site of main(), in program order.
\*   handler "exit": try/except that ends in sys.exit(1)
\*   handler "skip": try/except that logs and goes on
\*   handler "none": the call is not inside any try
\*   needs: the variable that must be truthy for the site to be reached
Call(op, arg, line, handler, needs) ==
    [kind |-> "call", op |-> op, arg |-> arg, line |-> line,
     handler |-> handler, needs |-> needs]

Poll(line) ==
    [kind |-> "poll", op |-> "run.get", arg |-> "", line |-> line,
     handler |-> "none", needs |-> ""]

Render ==
    [kind |-> "render", op |-> "", arg |-> "", line |-> 0,
     handler |-> "none", needs |-> ""]

\* a bug that logs a failing user lookup and goes on
Steps01M ==
    << Call("user.get", "me", 76, "skip", ""),
       Call("actors.list", "", 110, "skip", "") >>

Steps01 ==
    << Call("user.get", "me", 76, "exit", ""),
       Call("actors.list", "", 110, "skip", "") >>

\* a bug that reads the dataset before the actor has been invoked
StepsActorM(callLine, iterLine) ==
    << Call("dataset.iterate_items", "", iterLine, "none", ""),
       Call("actor.call", "", callLine, "exit", ""),
       Render >>

StepsActor(callLine, iterLine) ==
    << Call("actor.call", "", callLine, "exit", ""),
       Call("dataset.iterate_items", "", iterLine, "none", ""),
       Render >>

Steps02 == StepsActor(113, 133)
Steps03 == StepsActor(175, 193)
Steps04 == StepsActor(110, 128)
Steps05 == StepsActor(115, 132)
Steps06 == StepsActor(119, 136)
Steps07 == StepsActor(117, 134)
Steps08 == StepsActor(108, 125)

\* a bug that runs the commented-out clean-up of Step 7
Steps09M ==
    << Call("datasets.list", "", 63, "none", ""),
       Call("datasets.get_or_create", "", 94, "none", ""),
       Call("dataset.push_items", "", 154, "none", ""),
       Call("dataset.list_items", "limit=3", 185, "none", ""),
       Call("dataset.iterate_items", "", 191, "none", ""),
       Call("dataset.list_items", "fields", 196, "none", ""),
       Call("dataset.list_items", "limit=2", 215, "none", ""),
       Call("dataset.get", "", 228, "none", ""),
       Call("dataset.delete", "", 249, "none", "") >>

Steps09 ==
    << Call("datasets.list", "", 63, "none", ""),
       Call("datasets.get_or_create", "", 94, "none", ""),
       Call("dataset.push_items", "", 154, "none", ""),
       Call("dataset.list_items", "limit=3", 185, "none", ""),
       Call("dataset.iterate_items", "", 191, "none", ""),
       Call("dataset.list_items", "fields", 196, "none", ""),
       Call("dataset.list_items", "limit=2", 215, "none", ""),
       Call("dataset.get", "", 228, "none", "") >>

\* a bug that forgets to write the updated state in Step 6
Steps10M ==
    << Call("key_value_stores.list", "", 65, "none", ""),
       Call("key_value_stores.get_or_create", "", 93, "none", ""),
       Call("store.set_record", "config", 123, "none", ""),
       Call("store.set_record", "status", 128, "none", ""),
       Call("store.set_record", "pending_urls", 138, "none", ""),
       Call("store.set_record", "state", 150, "none", ""),
       Call("store.set_record", "metadata", 160, "none", ""),
       Call("store.get_record", "config", 171, "none", ""),
       Call("store.get_record", "status", 182, "none", ""),
       Call("store.get_record", "pending_urls", 188, "none", ""),
       Call("store.list_keys", "", 199, "none", ""),
       Call("store.get_record", "state", 231, "none", ""),
       Call("store.delete_record", "status", 242, "none", ""),
       Call("store.get_record", "status", 246, "none", ""),
       Call("store.get", "", 255, "none", "") >>

Steps10 ==
    << Call("key_value_stores.list", "", 65, "none", ""),
       Call("key_value_stores.get_or_create", "", 93, "none", ""),
       Call("store.set_record", "config", 123, "none", ""),
       Call("store.set_record", "status", 128, "none", ""),
       Call("store.set_record", "pending_urls", 138, "none", ""),
       Call("store.set_record", "state", 150, "none", ""),
       Call("store.set_record", "metadata", 160, "none", ""),
       Call("store.get_record", "config", 171, "none", ""),
       Call("store.get_record", "status", 182, "none", ""),
       Call("store.get_record", "pending_urls", 188, "none", ""),
       Call("store.list_keys", "", 199, "none", ""),
       Call("store.set_record", "state", 227, "none", ""),
       Call("store.get_record", "state", 231, "none", ""),
       Call("store.delete_record", "status", 242, "none", ""),
       Call("store.get_record", "status", 246, "none", ""),
       Call("store.get", "", 255, "none", "") >>

\* a bug that cancels the run once the wait is over
Steps11M ==
    << Call("runs.list", "", 67, "none", ""),
       Call("actor.start", "", 134, "none", ""),
       Poll(166),
       Call("run.abort", "", 181, "none", ""),
       Call("run.get", "", 183, "none", ""),
       Call("log.get", "", 230, "skip", ""),
       Call("dataset.iterate_items", "", 254, "none", "dataset_id") >>

Steps11 ==
    << Call("runs.list", "", 67, "none", ""),
       Call("actor.start", "", 134, "none", ""),
       Poll(166),
       Call("run.get", "", 183, "none", ""),
       Call("log.get", "", 230, "skip", ""),
       Call("dataset.iterate_items", "", 254, "none", "dataset_id") >>

\* a bug that runs the webhook example of Step 6 instead of printing it
Steps12M ==
    << Call("schedules.list", "", 64, "none", ""),
       Call("schedules.create", "", 135, "skip", ""),
       Call("schedule.get", "", 176, "none", "schedule_id"),
       Call("webhooks.create", "", 230, "none", ""),
       Call("schedule.delete", "", 285, "skip", "schedule_id") >>

Steps12 ==
    << Call("schedules.list", "", 64, "none", ""),
       Call("schedules.create", "", 135, "skip", ""),
       Call("schedule.get", "", 176, "none", "schedule_id"),
       Call("schedule.delete", "", 285, "skip", "schedule_id") >>

Prog(s) ==
    CASE s = 1 -> Steps01
      [] s = 2 -> Steps02
      [] s = 3 -> Steps03
      [] s = 4 -> Steps04
      [] s = 5 -> Steps05
      [] s = 6 -> Steps06
      [] s = 7 -> Steps07
      [] s = 8 -> Steps08
      [] s = 9 -> Steps09
      [] s = 10 -> Steps10
      [] s = 11 -> Steps11
      [] s = 12 -> Steps12

\* `len(sample_items)` of script 09
SampleItemCount == 5

\* a bug that stays on the failing call after logging it (a retry)
AfterHandledM(i) == i

\* an `except` that only prints falls through to the statement after the try
AfterHandled(i) == i + 1

\* ----------------------------------------------------------- format_number
FmtNumbers ==
    (0..FmtWindow)
        \cup ((1000 - FmtWindow)..(1000 + FmtWindow))
        \cup ((999999 - FmtWindow)..(1000000 + FmtWindow))

\* an int, or a value that is not a number (such as the default 'N/A')
FmtInputs ==
    {[isnum |-> TRUE, val |-> n] : n \in FmtNumbers}
        \cup {[isnum |-> FALSE, val |-> 0]}

NoFmt == [form |-> "none", whole |-> 0, frac |-> 0]

\* f"{n/unit:.1f}" as a count of tenths: the quotient rounded to one decimal.
\* A quotient that lies exactly between two tenths goes the way its binary
\* floating-point value lies (1050/1000 prints 1.1, 1250/1000 prints 1.2):
\* `up` is that direction.
Tenths(n, unit, up) ==
    LET q == (n * 10) \div unit
        r == (n * 10) % unit
    IN  IF 2 * r > unit \/ (2 * r = unit /\ up) THEN q + 1 ELSE q

\* format_number(num): the printed text as form, digits before the point and
\* the digit after it (frac = -1: no decimal point)
format_number(num, up) ==
    IF ~num.isnum
    THEN [form |-> "str", whole |-> 0, frac |-> -1]
    ELSE IF num.val >= 1000000
    THEN [form |-> "M",
          whole |-> Tenths(num.val, 1000000, up) \div 10,
          frac |-> Tenths(num.val, 1000000, up) % 10]
    ELSE IF num.val >= 1000
    THEN [form |-> "K",
          whole |-> Tenths(num.val, 1000, up) \div 10,
          frac |-> Tenths(num.val, 1000, up) % 10]
    ELSE [form |-> "plain", whole |-> num.val, frac |-> -1]

\* -------------------------------------------------------------- aggregates
MaxPosts == 2

\* a field of a result record: an int, absent, or something that is not an
\* int (a string, None, a float where a count is expected); a price may also
\* be a dict whose "value" is a number
Field(kind, val) == [kind |-> kind, val |-> val]
Absent == Field("missing", 0)
Counts == {Field("int", 0), Field("int", 2), Absent, Field("other", 0)}
Prices == {Field("num", 0), Field("num", 2), Field("dict", 2), Absent,
           Field("other", 0)}

\* the result records of scripts 05 to 08, reduced to the fields the
\* aggregates read: likes, the second count (comments, views, retweets) and
\* the price
Posts(s) ==
    CASE s = 5 -> [likes : Counts, views : {Absent}, price : {Absent}]
      [] s = 8 -> [likes : {Absent}, views : {Absent}, price : Prices]
      [] OTHER -> [likes : Counts, views : Counts, price : {Absent}]

PostSeqs(s) == SeqsUpTo(Posts(s), MaxPosts)

\* p.get("likesCount", p.get("likes", 0)): an absent field reads as the int 0
GetCount(f) == IF f.kind = "missing" THEN Field("int", 0) ELSE f

\* sum(... for p in items if isinstance(..., int))
RECURSIVE SumInts(_)
SumInts(fs) ==
    IF fs = <<>> THEN 0
    ELSE (IF GetCount(Head(fs)).kind = "int" THEN GetCount(Head(fs)).val ELSE 0)
         + SumInts(Tail(fs))

\* the loop of script 08 that collects the numeric prices
RECURSIVE NumericPrices(_)
NumericPrices(ps) ==
    IF ps = <<>> THEN <<>>
    ELSE (IF Head(ps).price.kind \in {"num", "dict"}
          THEN << Head(ps).price.val >> ELSE <<>>)
         \o NumericPrices(Tail(ps))

RECURSIVE SumSeq(_)
SumSeq(q) == IF q = <<>> THEN 0 ELSE Head(q) + SumSeq(Tail(q))

\* a printed aggregate: whether computing it raised ZeroDivisionError,
\* whether it is printed at all, and its whole part
Aggregate(raised, shown, val) == [raised |-> raised, shown |-> shown, val |-> val]
NoAggregate == Aggregate(FALSE, FALSE, 0)

\* a / b and a // b
Divide(a, b) ==
    IF b = 0 THEN Aggregate(TRUE, FALSE, 0) ELSE Aggregate(FALSE, TRUE, a \div b)

\* a bug that divides whatever the divisor is
TruthyM(n) == TRUE

\* `if total_views`: an int is truthy when it is not zero
Truthy(n) == n # 0

\* the average or rate each script prints under `if items:`
\*   05: total_likes // len(items) if items else 0
\*   06: (total_likes/total_views*100) if total_views else 0
\*   07: (total_likes + total_retweets) // len(items) if items else 0
\*   08: sum(prices)/len(prices), under `if prices:`
Average(s, ps) ==
    LET likes == SumInts([i \in DOMAIN ps |-> ps[i].likes])
        views == SumInts([i \in DOMAIN ps |-> ps[i].views])
        prices == NumericPrices(ps)
    IN  CASE s = 5 -> IF ListTruthy(ps) THEN Divide(likes, Len(ps))
                      ELSE Aggregate(FALSE, TRUE, 0)
          [] s = 6 -> IF Truthy(views) THEN Divide(likes * 100, views)
                      ELSE Aggregate(FALSE, TRUE, 0)
          [] s = 7 -> IF ListTruthy(ps) THEN Divide(likes + views, Len(ps))
                      ELSE Aggregate(FALSE, TRUE, 0)
          [] s = 8 -> IF ListTruthy(prices)
                      THEN Divide(SumSeq(prices), Len(prices))
                      ELSE NoAggregate

\* ------------------------------------------------------------- table cells
MaxTextLen == 50

\* a text of n characters, all "a" but for a "b" at position m (m = 0: none)
Marked(n, m) == [i \in 1..n |-> IF i = m THEN "b" ELSE "a"]

Texts == {Marked(n, m) : n \in 0..MaxTextLen, m \in 0..MaxTextLen}

Ellipsis == << ".", ".", "." >>

\* an off-by-one bug in the slice
SliceM(s, L) == SubSeq(s, 1, IF Len(s) < L - 1 THEN Len(s) ELSE L - 1)

\* Python's s[:L]
Slice(s, L) == SubSeq(s, 1, IF Len(s) < L THEN Len(s) ELSE L)

\* `if len(url) > 47: url = url[:47] + "..."` (script 02)
TruncateIf(s, L) == IF Len(s) > L THEN Slice(s, L) \o Ellipsis ELSE s

\* `caption = s[:32]` then `if len(s) > 32: caption += "..."` (03, 05-08)
TruncateSlice(s, L) ==
    IF Len(s) > L THEN Slice(s, L) \o Ellipsis ELSE Slice(s, L)

\* Python's `x or y` on strings
Or(x, y) == IF Len(x) > 0 THEN x ELSE y

NoCaption == << "N", "o", " ", "c", "a", "p", "t", "i", "o", "n" >>
NoDescription ==
    << "N", "o", " ", "d", "e", "s", "c", "r", "i", "p", "t", "i", "o", "n" >>
NoText == << "N", "o", " ", "t", "e", "x", "t" >>

Column(s, field, limit, width, style, placeholder) ==
    [script |-> s, field |-> field, limit |-> limit, max_width |-> width,
     style |-> style, placeholder |-> placeholder]

\* the truncated columns: limit of the slice, max_width of add_column, the
\* form of the truncation and the text shown for an empty value (`or ...`)
Columns ==
    { Column(2, "url", 47, 50, "if", <<>>),
      Column(2, "title", 37, 40, "if", <<>>),
      Column(3, "title", 37, 40, "slice", <<>>),
      Column(5, "caption", 32, 35, "slice", NoCaption),
      Column(6, "desc", 27, 30, "slice", NoDescription),
      Column(7, "text", 32, 35, "slice", NoText),
      Column(8, "title", 32, 35, "slice", <<>>) }

NoColumn == Column(0, "", 0, 0, "", <<>>)

\* the text handed to table.add_row for the value s of column col
TableCell(col, s) ==
    LET t == IF col.style = "if" THEN TruncateIf(s, col.limit)
             ELSE TruncateSlice(s, col.limit)
    IN  IF col.placeholder # <<>> THEN Or(t, col.placeholder) ELSE t

\* ------------------------------------------------------ rows of the tables
MaxTweets == 17

\* a result set of n tweets that differ from one another: tweet i has i likes
LongTweets(n) ==
    [i \in 1..n |-> [likes |-> Field("int", i), views |-> Field("int", 0),
                     price |-> Absent]]

\* the result sets the tables and aggregates are run on
ResultSets(s) ==
    IF s = 7 THEN PostSeqs(s) \cup {LongTweets(n) : n \in 0..MaxTweets}
    ELSE PostSeqs(s)

\* a bug that shows every tweet
TableRowsM(s, ps) == [i \in 1..Len(ps) |-> [no |-> i, item |-> ps[i]]]

\* `for i, x in enumerate(items, 1)`, in script 07 over items[:15]: one row
\* per record shown, with its number
TableRows(s, ps) ==
    LET shown == IF s = 7 THEN Slice(ps, 15) ELSE ps
    IN  [i \in 1..Len(shown) |-> [no |-> i, item |-> shown[i]]]

\* total_likes and the second total (comments, views, retweets)
Totals(ps) ==
    [likes |-> SumInts([i \in DOMAIN ps |-> ps[i].likes]),
     second |-> SumInts([i \in DOMAIN ps |-> ps[i].views])]

NoTotals == [likes |-> 0, second |-> 0]

\* -------------------------------------------------------------- token echo
MaxEchoLen == 26

\* tokens long enough to have characters that the echo leaves out
EchoTokens == {Marked(n, m) : n \in 0..MaxEchoLen, m \in 0..MaxEchoLen}

\* Python's s[-k:]
LastChars(s, k) == IF Len(s) <= k THEN s ELSE SubSeq(s, Len(s) - k + 1, Len(s))

\* f"{api_token[:20]}...{api_token[-4:]}"
Echo(t) == Slice(t, 20) \o Ellipsis \o LastChars(t, 4)

\* ------------------------------------------------------------- the service
\* ids the service hands out for a dataset and for a schedule
DatasetIds == {"ds1", "ds2"}
ScheduleIds == {"sch1", "sch2"}

\* `sample_items` of script 09, by their "id" field
SampleIds == << 1, 2, 3, 4, 5 >>

\* the keys script 10 writes
KvKeys == {"config", "status", "pending_urls", "state", "metadata"}

\* a record of the store is the line of the set_record that wrote it; absent
\* keys map to NoRecord, which get_record returns as None
NoRecord == 0

\* an account in which nothing of the demos exists yet
EmptyService ==
    [dsExists |-> FALSE, dsRecords |-> <<>>,
     kv |-> [k \in KvKeys |-> NoRecord],
     schedules |-> {}]

\* an account in which the name the script is about to use is taken: the name
\* is the timestamp to the second, so an execution started in the same second
\* has made the dataset and pushed to it
UsedService == [EmptyService EXCEPT !.dsExists = TRUE, !.dsRecords = SampleIds]

\* an account in which the store name is taken: an execution started in the
\* same second has run to its end on the same store
UsedStore ==
    [EmptyService EXCEPT
        !.kv = [k \in KvKeys |->
                  CASE k = "config" -> 123
                    [] k = "pending_urls" -> 138
                    [] k = "state" -> 227
                    [] k = "metadata" -> 160
                    [] OTHER -> NoRecord]]

InitialServices(s) ==
    CASE s = 9 -> {EmptyService, UsedService}
      [] s = 10 -> {EmptyService, UsedStore}
      [] OTHER -> {EmptyService}

\* a bug that creates the demo schedule enabled
is_enabledM == TRUE

\* `is_enabled=False` of schedules_client.create(...)
is_enabled == FALSE

\* the resource a call addresses: client.dataset(dataset_id), schedule_id
Target(op, ds, sch) ==
    CASE op \in {"dataset.iterate_items", "dataset.push_items",
                 "dataset.list_items", "dataset.get", "dataset.delete"} -> ds
      [] op \in {"schedule.get", "schedule.delete", "schedule.update"} -> sch
      [] OTHER -> ""

\* what the account holds once the service has carried out a call
ServiceAfter(v, op, arg, line, target, newId) ==
    CASE op = "datasets.get_or_create" -> [v EXCEPT !.dsExists = TRUE]
      [] op = "dataset.push_items" ->
           [v EXCEPT !.dsRecords = v.dsRecords \o SampleIds]
      [] op = "dataset.delete" ->
           [v EXCEPT !.dsExists = FALSE, !.dsRecords = <<>>]
      [] op = "store.set_record" -> [v EXCEPT !.kv[arg] = line]
      [] op = "store.delete_record" -> [v EXCEPT !.kv[arg] = NoRecord]
      [] op = "schedules.create" ->
           [v EXCEPT !.schedules =
                v.schedules \cup {[id |-> newId, is_enabled |-> is_enabled]}]
      [] op = "schedule.delete" ->
           [v EXCEPT !.schedules = {x \in v.schedules : x.id # target}]
      [] OTHER -> v

\* the value store.get_record(key) returns
GetRecord(v, key) == v.kv[key]

\* new_state before line 231 has run, and the value of a record that has
\* none of the two fields
NoPayload == [itemsProcessed |-> 0, currentPage |-> 0]

\* the fields of the "state" record that lines 232-233 print, by the line
\* that wrote the record: run_state (150) and updated_state (227)
Payload(rec) ==
    CASE rec = 150 -> [itemsProcessed |-> 150, currentPage |-> 5]
      [] rec = 227 -> [itemsProcessed |-> 200, currentPage |-> 10]
      [] OTHER -> NoPayload

\* deleted_value before line 246 has run
Unset == -1

\* ------------------------------------------- two executions of script 09
\* the seconds of the clock that the two executions may start in
MaxSecond == 1
Seconds == 0..MaxSecond

Execs == {1, 2}

\* the five records execution p pushes
Pushed(p) == [i \in 1..5 |-> [owner |-> p, id |-> SampleIds[i]]]

\* an execution of main() of script 09: where it is, the second in its
\* dataset_name, the three item counts it reads back and the count of its panel
NewExec ==
    [ip |-> 1, pc |-> "run", name |-> -1, total |-> -1, iterated |-> -1,
     itemCount |-> -1, summary |-> -1]

\* the datasets of the account by the second in their name
NoDatasets == [t \in Seconds |-> [exists |-> FALSE, records |-> <<>>]]

\* f"learning-lab-demo-{datetime.now().strftime('%Y%m%d-%H%M%S')}": the name
\* is the second the line runs in, the same for every execution
DatasetName(p, t) == t

\* ------------------------------------------------------------------- state
VARIABLES
    script,        \* which of the twelve scripts is executed
    environ,       \* APIFY_API_TOKEN in the process environment
    accepted,      \* whether the service accepts the token
    api_token,     \* main()'s api_token
    client,        \* an ApifyClient has been constructed
    pc,            \* start, client, run, done, exited (sys.exit), crashed
    ip,            \* index of the next call site in Prog(script)
    calls,         \* the remote calls issued so far, in order
    printed,       \* the sections written to the console so far
    exitStatus,    \* -1 while running, then the process exit status
    uncaught,      \* none, or what raised the exception that left main()
    items,         \* list(dataset_client.iterate_items())
    summaryCount,  \* the count shown by the closing panel, -1 if none
    elapsed,       \* script 11: elapsed
    sleeps,        \* script 11: number of time.sleep(poll_interval)
    progress,      \* script 11: completed value of the progress bar
    status,        \* script 11: status of the last poll
    final_status,  \* script 11: final_status
    runStatus,     \* the status of the run at the service
    schedule_id,   \* script 12: schedule_id ("" is None)
    dataset_id,    \* dataset id taken from the service's answer
    num,           \* format_number: its argument
    tieUp,         \* format_number: rounding direction of a halfway quotient
    fmtOut,        \* format_number: its result
    svc,           \* what the service holds: dataset, schedule, key-value store
    deleted_value, \* script 10: what get_record("status") returned at line 246
    new_state,     \* script 10: what get_record("state") returned at line 231
    text,          \* table cell: the value of the field
    column,        \* table cell: the column it is shown in
    cell,          \* table cell: the text handed to add_row
    posts,         \* aggregates: the result set
    agg,           \* aggregates: the average or rate printed
    rows,          \* aggregates: the rows of the table
    totals,        \* aggregates: the totals printed
    token_echo,    \* script 01: the text printed after "Token found:"
    execs,         \* two executions of script 09: their local state
    account,       \* two executions of script 09: the datasets they share
    now            \* two executions of script 09: the clock, in seconds

vars ==
    << script, environ, accepted, api_token, client, pc, ip, calls, printed,
       exitStatus, uncaught, items, summaryCount, elapsed, sleeps, progress,
       status, final_status, runStatus, schedule_id, dataset_id, num, tieUp,
       fmtOut, svc, deleted_value, new_state, text, column, cell, posts,
       agg, rows, totals, token_echo, execs, account, now >>

fmtVars == << num, tieUp, fmtOut >>
truncVars == << text, column, cell >>
aggVars == << posts, agg, rows, totals >>
echoVars == << token_echo >>
twoVars == << execs, account, now >>
kvVars == << deleted_value, new_state >>
pollVars == << elapsed, sleeps, progress, status >>

MainInit ==
    /\ api_token = NoneVal
    /\ client = FALSE
    /\ ip = 1
    /\ calls = <<>>
    /\ printed = {}
    /\ exitStatus = -1
    /\ uncaught = "none"
    /\ items = <<>>
    /\ summaryCount = -1
    /\ elapsed = 0
    /\ sleeps = 0
    /\ progress = 0
    /\ status = ""
    /\ final_status = ""
    /\ runStatus = ""
    /\ schedule_id = ""
    /\ dataset_id = ""
    /\ deleted_value = Unset
    /\ new_state = NoPayload
    /\ token_echo = <<>>

NoTrunc ==
    /\ text = <<>>
    /\ column = NoColumn
    /\ cell = <<>>

NoTwo ==
    /\ execs = [p \in Execs |-> NewExec]
    /\ account = NoDatasets
    /\ now = 0

NoAgg ==
    /\ posts = <<>>
    /\ agg = NoAggregate
    /\ rows = <<>>
    /\ totals = NoTotals

Init ==
    /\ script \in Scripts
    /\ environ \in Environs
    /\ accepted \in (IF environ.present /\ environ.value # <<>> THEN BOOLEAN ELSE {FALSE})
    /\ pc = "start"
    /\ MainInit
    /\ svc \in InitialServices(script)
    /\ num = [isnum |-> FALSE, val |-> 0]
    /\ tieUp = FALSE
    /\ fmtOut = NoFmt
    /\ NoTrunc
    /\ NoTwo
    /\ NoAgg

\* --------------------------------------------------------- start of main()
\* api_token = os.environ.get(...); if not api_token: print, sys.exit(1)
CheckToken ==
    /\ pc = "start"
    /\ api_token' = EnvironGet(environ)
    /\ pc' = CheckTokenNext(api_token')
    /\ printed' = IF Not(api_token') THEN {"token_error"}
                  ELSE IF script = 1 THEN {"token_echo"} ELSE {}
    /\ exitStatus' = IF pc' = "exited" THEN 1 ELSE -1
    /\ token_echo' = IF ~Not(api_token') /\ script = 1
                     THEN Echo(api_token'.str) ELSE token_echo
    /\ UNCHANGED << script, environ, accepted, client, ip, calls, uncaught,
                    items, summaryCount, pollVars, final_status, runStatus,
                    schedule_id, dataset_id, svc,
                    kvVars, fmtVars, truncVars, aggVars, twoVars >>

\* client = ApifyClient(api_token): no request is sent
InitClient ==
    /\ pc = "client"
    /\ client' = TRUE
    /\ pc' = "run"
    /\ UNCHANGED << script, environ, accepted, api_token, ip, calls, printed,
                    exitStatus, uncaught, items, summaryCount, pollVars,
                    final_status, runStatus, schedule_id, dataset_id, svc,
                    kvVars, fmtVars, truncVars, aggVars, echoVars, twoVars >>

\* ------------------------------------------------------------- call sites
AtStep == pc = "run" /\ ip <= Len(Prog(script))
Cur == Prog(script)[ip]

\* a bug that drops the `if schedule_id:` and `if dataset_id:` tests
NeedsM(step) == TRUE

Needs(step) ==
    CASE step.needs = "schedule_id" -> schedule_id # ""
      [] step.needs = "dataset_id" -> dataset_id # ""
      [] OTHER -> TRUE

\* the id a call hands back to main(): a dataset id or a schedule id
Result(op, ds, sch) ==
    CASE op \in {"actor.call", "run.get", "datasets.get_or_create"} -> ds
      [] op = "schedules.create" -> sch
      [] OTHER -> ""

Logged(step, ok, result) ==
    Append(calls, [op |-> step.op, arg |-> step.arg, line |-> step.line,
                   ok |-> ok,
                   target |-> Target(step.op, dataset_id, schedule_id),
                   result |-> result])

\* what main() prints after a call has returned
PrintOnReturn(s, op) ==
    CASE op = "actor.call" -> {"completed"}
      [] op = "dataset.iterate_items" /\ s \in ActorScripts -> {"results"}
      [] op = "dataset.iterate_items" /\ s = 11 -> {"output"}
      [] op = "run.get" -> {"final_status", "statistics"}
      [] op = "log.get" -> {"log"}
      [] OTHER -> {}

\* a bug that inverts the test of line 247
VerificationM(line, value) ==
    IF line # 246 THEN {}
    ELSE IF value # NoRecord THEN {"not_found"} ELSE {"still_exists"}

\* line 247 of script 10: what the verification of the delete prints
Verification(line, value) ==
    IF line # 246 THEN {}
    ELSE IF value = NoRecord THEN {"not_found"} ELSE {"still_exists"}

\* the call returns: main() takes what it needs from the answer and goes on
CallReturns ==
    /\ AtStep /\ Cur.kind = "call" /\ Needs(Cur)
    /\ accepted
    /\ ip' = ip + 1
    /\ runStatus' \in
         CASE Cur.op = "actor.call" -> TerminalStatuses
           [] Cur.op = "actor.start" -> {"READY", "RUNNING"}
           [] Cur.op = "run.get" -> StatusNext(runStatus)
           [] OTHER -> {runStatus}
    /\ final_status' = IF Cur.op = "run.get" THEN runStatus' ELSE final_status
    /\ dataset_id' \in
         IF Cur.op \in {"actor.call", "run.get", "datasets.get_or_create"}
         THEN DatasetIds ELSE {dataset_id}
    /\ items' \in
         IF Cur.op = "dataset.iterate_items" /\ script \in ActorScripts \cup {11}
         THEN ItemSeqs ELSE {items}
    /\ schedule_id' \in
         IF Cur.op = "schedules.create" THEN ScheduleIds ELSE {schedule_id}
    /\ calls' = Logged(Cur, TRUE, Result(Cur.op, dataset_id', schedule_id'))
    /\ svc' = ServiceAfter(svc, Cur.op, Cur.arg, Cur.line,
                           Target(Cur.op, dataset_id, schedule_id), schedule_id')
    /\ deleted_value' =
         IF Cur.line = 246 THEN GetRecord(svc, Cur.arg) ELSE deleted_value
    /\ new_state' =
         IF Cur.line = 231 THEN Payload(GetRecord(svc, Cur.arg)) ELSE new_state
    /\ printed' = printed \cup PrintOnReturn(script, Cur.op)
                          \cup Verification(Cur.line, deleted_value')
    /\ UNCHANGED << script, environ, accepted, api_token, client, pc,
                    exitStatus, uncaught, summaryCount, pollVars, fmtVars,
                    truncVars, aggVars, echoVars, twoVars >>

\* a bug that prints the error and forgets sys.exit(1)
CallRaisesExitM ==
    /\ AtStep /\ Cur.kind = "call" /\ Needs(Cur)
    /\ Cur.handler = "exit"
    /\ calls' = Logged(Cur, FALSE, "")
    /\ printed' = printed \cup {"call_error"}
    /\ ip' = ip + 1
    /\ UNCHANGED << script, environ, accepted, api_token, client, pc,
                    exitStatus, uncaught, items, summaryCount, pollVars,
                    final_status, runStatus, schedule_id, dataset_id, svc,
                    kvVars, fmtVars, truncVars, aggVars, echoVars, twoVars >>

\* the call raises inside a try whose except prints and calls sys.exit(1)
CallRaisesExit ==
    /\ AtStep /\ Cur.kind = "call" /\ Needs(Cur)
    /\ Cur.handler = "exit"
    /\ calls' = Logged(Cur, FALSE, "")
    /\ printed' = printed \cup {"call_error"}
    /\ pc' = "exited"
    /\ exitStatus' = 1
    /\ UNCHANGED << script, environ, accepted, api_token, client, ip, uncaught,
                    items, summaryCount, pollVars, final_status, runStatus,
                    schedule_id, dataset_id, svc,
                    kvVars, fmtVars, truncVars, aggVars, echoVars, twoVars >>

\* a bug that treats every caught failure as fatal
CallRaisesSkipM ==
    /\ AtStep /\ Cur.kind = "call" /\ Needs(Cur)
    /\ Cur.handler = "skip"
    /\ calls' = Logged(Cur, FALSE, "")
    /\ printed' = printed \cup {"call_note"}
    /\ pc' = "exited"
    /\ exitStatus' = 1
    /\ UNCHANGED << script, environ, accepted, api_token, client, ip, uncaught,
                    items, summaryCount, pollVars, final_status, runStatus,
                    schedule_id, dataset_id, svc,
                    kvVars, fmtVars, truncVars, aggVars, echoVars, twoVars >>

\* the call raises inside a try whose except only prints
CallRaisesSkip ==
    /\ AtStep /\ Cur.kind = "call" /\ Needs(Cur)
    /\ Cur.handler = "skip"
    /\ calls' = Logged(Cur, FALSE, "")
    /\ printed' = printed \cup {"call_note"}
    /\ ip' = AfterHandled(ip)
    /\ schedule_id' = IF Cur.op = "schedules.create" THEN "" ELSE schedule_id
    /\ UNCHANGED << script, environ, accepted, api_token, client, pc,
                    exitStatus, uncaught, items, summaryCount, pollVars,
                    final_status, runStatus, dataset_id, svc,
                    kvVars, fmtVars, truncVars, aggVars, echoVars, twoVars >>

\* the call raises outside any try: the exception leaves main() and the
\* interpreter prints the traceback and exits with status 1
CallRaisesUncaught ==
    /\ AtStep /\ Cur.kind = "call" /\ Needs(Cur)
    /\ Cur.handler = "none"
    /\ calls' = Logged(Cur, FALSE, "")
    /\ uncaught' = "remote"
    /\ pc' = "crashed"
    /\ exitStatus' = 1
    /\ UNCHANGED << script, environ, accepted, api_token, client, ip, printed,
                    items, summaryCount, pollVars, final_status, runStatus,
                    schedule_id, dataset_id, svc,
                    kvVars, fmtVars, truncVars, aggVars, echoVars, twoVars >>

\* `if schedule_id:` / `if dataset_id:` is false: the site is not reached
SkipStep ==
    /\ AtStep /\ Cur.kind = "call" /\ ~Needs(Cur)
    /\ ip' = ip + 1
    /\ UNCHANGED << script, environ, accepted, api_token, client, pc, calls,
                    printed, exitStatus, uncaught, items, summaryCount,
                    pollVars, final_status, runStatus, schedule_id,
                    dataset_id, svc,
                    kvVars, fmtVars, truncVars, aggVars, echoVars, twoVars >>

\* ------------------------------------------------- script 11: polling loop
\* a bug that sleeps before it looks at the status
PollReturnsM ==
    /\ AtStep /\ Cur.kind = "poll"
    /\ LoopCond(elapsed)
    /\ accepted
    /\ calls' = Logged(Cur, TRUE, "")
    /\ runStatus' \in StatusNext(runStatus)
    /\ status' = runStatus'
    /\ sleeps' = sleeps + 1
    /\ elapsed' = elapsed + poll_interval
    /\ IF IsFinished(status')
       THEN progress' = 100 /\ ip' = ip + 1
       ELSE progress' = ProgressEstimate(elapsed) /\ ip' = ip
    /\ UNCHANGED << script, environ, accepted, api_token, client, pc, printed,
                    exitStatus, uncaught, items, summaryCount, final_status,
                    schedule_id, dataset_id, svc,
                    kvVars, fmtVars, truncVars, aggVars, echoVars, twoVars >>

\* one iteration of `while elapsed < max_wait` in which run_client.get()
\* returns: break on a final status, otherwise sleep and count
PollReturns ==
    /\ AtStep /\ Cur.kind = "poll"
    /\ LoopCond(elapsed)
    /\ accepted
    /\ calls' = Logged(Cur, TRUE, "")
    /\ runStatus' \in StatusNext(runStatus)
    /\ status' = runStatus'
    /\ IF IsFinished(status')
       THEN /\ progress' = 100
            /\ ip' = ip + 1
            /\ UNCHANGED << elapsed, sleeps >>
       ELSE /\ progress' = ProgressEstimate(elapsed)
            /\ sleeps' = sleeps + 1
            /\ elapsed' = elapsed + poll_interval
            /\ ip' = ip
    /\ UNCHANGED << script, environ, accepted, api_token, client, pc, printed,
                    exitStatus, uncaught, items, summaryCount, final_status,
                    schedule_id, dataset_id, svc,
                    kvVars, fmtVars, truncVars, aggVars, echoVars, twoVars >>

\* run_client.get() raises inside the loop: nothing catches it
PollRaises ==
    /\ AtStep /\ Cur.kind = "poll"
    /\ LoopCond(elapsed)
    /\ calls' = Logged(Cur, FALSE, "")
    /\ uncaught' = "remote"
    /\ pc' = "crashed"
    /\ exitStatus' = 1
    /\ UNCHANGED << script, environ, accepted, api_token, client, ip, printed,
                    items, summaryCount, pollVars, final_status, runStatus,
                    schedule_id, dataset_id, svc,
                    kvVars, fmtVars, truncVars, aggVars, echoVars, twoVars >>

\* the loop test fails: the ceiling is reached
PollExit ==
    /\ AtStep /\ Cur.kind = "poll"
    /\ ~LoopCond(elapsed)
    /\ ip' = ip + 1
    /\ UNCHANGED << script, environ, accepted, api_token, client, pc, calls,
                    printed, exitStatus, uncaught, items, summaryCount,
                    pollVars, final_status, runStatus, schedule_id,
                    dataset_id, svc,
                    kvVars, fmtVars, truncVars, aggVars, echoVars, twoVars >>

\* ------------------------------------------- scripts 02-08: result section
\* `if items:` and what it guards, when nothing in it raises
RenderResults ==
    /\ AtStep /\ Cur.kind = "render"
    /\ ~(ListTruthy(items) /\ RenderRaises(script, items))
    /\ printed' = IF ListTruthy(items)
                  THEN printed \cup RenderSections(script) ELSE printed
    /\ ip' = ip + 1
    /\ UNCHANGED << script, environ, accepted, api_token, client, pc, calls,
                    exitStatus, uncaught, items, summaryCount, pollVars,
                    final_status, runStatus, schedule_id, dataset_id, svc,
                    kvVars, fmtVars, truncVars, aggVars, echoVars, twoVars >>

\* a statement of the result section raises: nothing catches it
RenderFails ==
    /\ AtStep /\ Cur.kind = "render"
    /\ ListTruthy(items) /\ RenderRaises(script, items)
    /\ printed' = printed \cup RenderSections(script)
    /\ uncaught' = "local"
    /\ pc' = "crashed"
    /\ exitStatus' = 1
    /\ UNCHANGED << script, environ, accepted, api_token, client, ip, calls,
                    items, summaryCount, pollVars, final_status, runStatus,
                    schedule_id, dataset_id, svc,
                    kvVars, fmtVars, truncVars, aggVars, echoVars, twoVars >>

\* ---------------------------------------------------------- closing panel
\* a bug that ends with an error when the run did not succeed
SummaryM ==
    /\ pc = "run" /\ ip > Len(Prog(script))
    /\ LET bad == script \in ActorScripts /\ runStatus # "SUCCEEDED"
       IN  /\ printed' = IF bad THEN printed \cup {"call_error"}
                         ELSE printed \cup {"summary"}
           /\ pc' = IF bad THEN "exited" ELSE "done"
           /\ exitStatus' = IF bad THEN 1 ELSE 0
    /\ summaryCount' = IF script \in ActorScripts THEN Len(items)
                       ELSE IF script = 9 THEN SampleItemCount ELSE -1
    /\ UNCHANGED << script, environ, accepted, api_token, client, ip, calls,
                    uncaught, items, pollVars, final_status, runStatus,
                    schedule_id, dataset_id, svc,
                    kvVars, fmtVars, truncVars, aggVars, echoVars, twoVars >>

Summary ==
    /\ pc = "run" /\ ip > Len(Prog(script))
    /\ printed' = printed \cup {"summary"}
    /\ summaryCount' = IF script \in ActorScripts THEN Len(items)
                       ELSE IF script = 9 THEN SampleItemCount ELSE -1
    /\ pc' = "done"
    /\ exitStatus' = 0
    /\ UNCHANGED << script, environ, accepted, api_token, client, ip, calls,
                    uncaught, items, pollVars, final_status, runStatus,
                    schedule_id, dataset_id, svc,
                    kvVars, fmtVars, truncVars, aggVars, echoVars, twoVars >>

Next ==
    \/ CheckToken
    \/ InitClient
    \/ CallReturns
    \/ CallRaisesExit
    \/ CallRaisesSkip
    \/ CallRaisesUncaught
    \/ SkipStep
    \/ PollReturns
    \/ PollRaises
    \/ PollExit
    \/ RenderResults
    \/ RenderFails
    \/ Summary

Spec == Init /\ [][Next]_vars

\* ------------------------------------- format_number on its own arguments
InitFmt ==
    /\ script = 6
    /\ environ = [present |-> FALSE, value |-> <<>>]
    /\ accepted = FALSE
    /\ pc = "fmt"
    /\ MainInit
    /\ svc = EmptyService
    /\ num \in FmtInputs
    /\ tieUp \in BOOLEAN
    /\ fmtOut = NoFmt
    /\ NoTrunc
    /\ NoTwo
    /\ NoAgg

FormatNumber ==
    /\ pc = "fmt"
    /\ fmtOut' = format_number(num, tieUp)
    /\ pc' = "fmt_done"
    /\ UNCHANGED << script, environ, accepted, api_token, client, ip, calls,
                    printed, exitStatus, uncaught, items, summaryCount,
                    pollVars, final_status, runStatus, schedule_id,
                    dataset_id, num, tieUp, svc,
                    kvVars, truncVars, aggVars, echoVars, twoVars >>

NextFmt == FormatNumber

SpecFmt == InitFmt /\ [][NextFmt]_vars

\* ------------------------------------------ one table cell on its own value
InitTrunc ==
    /\ script \in {2, 3, 5, 6, 7, 8}
    /\ environ = [present |-> FALSE, value |-> <<>>]
    /\ accepted = FALSE
    /\ pc = "cell"
    /\ MainInit
    /\ svc = EmptyService
    /\ num = [isnum |-> FALSE, val |-> 0]
    /\ tieUp = FALSE
    /\ fmtOut = NoFmt
    /\ column \in {c \in Columns : c.script = script}
    /\ text \in Texts
    /\ cell = <<>>
    /\ NoAgg
    /\ NoTwo

\* the body of the `for` loop that fills the table, for one field of one item
AddRow ==
    /\ pc = "cell"
    /\ cell' = TableCell(column, text)
    /\ pc' = "cell_done"
    /\ UNCHANGED << script, environ, accepted, api_token, client, ip, calls,
                    printed, exitStatus, uncaught, items, summaryCount,
                    pollVars, final_status, runStatus, schedule_id,
                    dataset_id, svc, kvVars, fmtVars, text, column,
                    aggVars, echoVars, twoVars >>

NextTrunc == AddRow

SpecTrunc == InitTrunc /\ [][NextTrunc]_vars

\* ------------------------------- the aggregates on their own result sets
InitAgg ==
    /\ script \in 5..8
    /\ environ = [present |-> FALSE, value |-> <<>>]
    /\ accepted = FALSE
    /\ pc = "table"
    /\ MainInit
    /\ svc = EmptyService
    /\ num = [isnum |-> FALSE, val |-> 0]
    /\ tieUp = FALSE
    /\ fmtOut = NoFmt
    /\ NoTrunc
    /\ NoTwo
    /\ posts \in ResultSets(script)
    /\ agg = NoAggregate
    /\ rows = <<>>
    /\ totals = NoTotals

\* the loop that fills the table, under `if items:`
FillTable ==
    /\ pc = "table"
    /\ rows' = IF ListTruthy(posts) THEN TableRows(script, posts) ELSE rows
    /\ pc' = "agg"
    /\ UNCHANGED << script, environ, accepted, api_token, client, ip, calls,
                    printed, exitStatus, uncaught, items, summaryCount,
                    pollVars, final_status, runStatus, schedule_id,
                    dataset_id, svc, kvVars, fmtVars, truncVars, posts, agg,
                    totals, echoVars, twoVars >>

\* the statements between the table and the detail view, under `if items:`
ComputeAggregates ==
    /\ pc = "agg"
    /\ agg' = IF ListTruthy(posts) THEN Average(script, posts) ELSE agg
    /\ totals' = IF ListTruthy(posts) THEN Totals(posts) ELSE totals
    /\ pc' = "agg_done"
    /\ UNCHANGED << script, environ, accepted, api_token, client, ip, calls,
                    printed, exitStatus, uncaught, items, summaryCount,
                    pollVars, final_status, runStatus, schedule_id,
                    dataset_id, svc, kvVars, fmtVars, truncVars, posts, rows,
                    echoVars, twoVars >>

\* the closing panel: f"... found: {len(items)}"
PrintPanel ==
    /\ pc = "agg_done"
    /\ summaryCount' = Len(posts)
    /\ pc' = "panel_done"
    /\ UNCHANGED << script, environ, accepted, api_token, client, ip, calls,
                    printed, exitStatus, uncaught, items, pollVars,
                    final_status, runStatus, schedule_id, dataset_id, svc,
                    kvVars, fmtVars, truncVars, aggVars, echoVars, twoVars >>

NextAgg ==
    \/ FillTable
    \/ ComputeAggregates
    \/ PrintPanel

SpecAgg == InitAgg /\ [][NextAgg]_vars

\* ---------------------------------- Step 1 of script 01 on longer tokens
InitEcho ==
    /\ script = 1
    /\ environ \in [present : {TRUE}, value : EchoTokens]
    /\ accepted = FALSE
    /\ pc = "start"
    /\ MainInit
    /\ svc = EmptyService
    /\ num = [isnum |-> FALSE, val |-> 0]
    /\ tieUp = FALSE
    /\ fmtOut = NoFmt
    /\ NoTrunc
    /\ NoTwo
    /\ NoAgg

NextEcho == CheckToken

SpecEcho == InitEcho /\ [][NextEcho]_vars

\* ------------------- two executions of script 09 against the same account
oneVars ==
    << script, environ, accepted, api_token, client, pc, ip, calls, printed,
       exitStatus, uncaught, items, summaryCount, pollVars, final_status,
       runStatus, schedule_id, dataset_id, svc, kvVars, fmtVars, truncVars,
       aggVars, echoVars >>

InitTwo ==
    /\ script = 9
    /\ environ = [present |-> TRUE, value |-> << "a" >>]
    /\ accepted = TRUE
    /\ pc = "two"
    /\ MainInit
    /\ svc = EmptyService
    /\ num = [isnum |-> FALSE, val |-> 0]
    /\ tieUp = FALSE
    /\ fmtOut = NoFmt
    /\ NoTrunc
    /\ NoAgg
    /\ execs = [p \in Execs |-> NewExec]
    /\ account = NoDatasets
    /\ now \in Seconds

\* the next call of execution p returns
ExecReturns(p) ==
    LET e == execs[p]
        step == Steps09[e.ip]
        name == IF step.op = "datasets.get_or_create"
                THEN DatasetName(p, now) ELSE e.name
        count == IF name \in Seconds THEN Len(account[name].records) ELSE 0
    IN  /\ e.pc = "run" /\ e.ip <= Len(Steps09)
        /\ account' =
             CASE step.op = "datasets.get_or_create" ->
                    [account EXCEPT ![name].exists = TRUE]
               [] step.op = "dataset.push_items" ->
                    [account EXCEPT ![name].records = @ \o Pushed(p)]
               [] OTHER -> account
        /\ execs' = [execs EXCEPT
               ![p].ip = e.ip + 1,
               ![p].name = name,
               ![p].total = IF step.line = 185 THEN count ELSE e.total,
               ![p].iterated = IF step.line = 191 THEN count ELSE e.iterated,
               ![p].itemCount = IF step.line = 228 THEN count ELSE e.itemCount]
        /\ UNCHANGED << oneVars, now >>

\* the next call of execution p raises: nothing catches it
ExecRaises(p) ==
    /\ execs[p].pc = "run" /\ execs[p].ip <= Len(Steps09)
    /\ execs' = [execs EXCEPT ![p].pc = "crashed"]
    /\ UNCHANGED << oneVars, account, now >>

\* the closing panel of execution p: f"Items: {len(sample_items)}"
ExecSummary(p) ==
    /\ execs[p].pc = "run" /\ execs[p].ip > Len(Steps09)
    /\ execs' = [execs EXCEPT ![p].pc = "done", ![p].summary = SampleItemCount]
    /\ UNCHANGED << oneVars, account, now >>

\* a second passes
Tick ==
    /\ now < MaxSecond
    /\ now' = now + 1
    /\ UNCHANGED << oneVars, execs, account >>

NextTwo ==
    \/ \E p \in Execs : ExecReturns(p)
    \/ \E p \in Execs : ExecRaises(p)
    \/ \E p \in Execs : ExecSummary(p)
    \/ Tick

SpecTwo == InitTwo /\ [][NextTwo]_vars

\* ================================================================== claims
Terminated == pc \in {"done", "exited", "crashed"}
TokenEmpty == ~environ.present \/ environ.value = <<>>
TokenRejected == environ.present /\ environ.value # <<>> /\ ~accepted
SiteCount(line) == Cardinality({i \in DOMAIN calls : calls[i].line = line})
PollCount == SiteCount(166)

\* C1: in each of the twelve scripts, once the token check has run with
\* APIFY_API_TOKEN unset or empty, the error message has been printed and the
\* execution has ended with exit status 1.
C1_MissingTokenExits ==
    (pc # "start" /\ TokenEmpty)
        => (pc = "exited" /\ exitStatus = 1 /\ "token_error" \in printed)

C1_Witness ==
    /\ script = 12 /\ environ.present /\ environ.value = <<>>
    /\ pc = "exited" /\ exitStatus = 1

\* C2: a client exists or a remote call has been issued only after the token
\* check has passed on a non-empty token.
C2_TokenBeforeCalls ==
    (client \/ calls # <<>>)
        => /\ pc # "start"
           /\ environ.present /\ environ.value # <<>>
           /\ api_token = [none |-> FALSE, str |-> environ.value]

C2_Witness == script = 9 /\ client /\ Len(calls) >= 2

\* C3 as stated: with a token the service rejects, the script ends with a
\* non-zero exit status and has made no network call.
C3_Original ==
    (TokenRejected /\ Terminated) => (exitStatus # 0 /\ calls = <<>>)

\* C3 amended: with a token the service rejects, exactly one network call is
\* made, the first one; it fails and the script ends there with exit status 1.
C3_RejectedAtFirstCall ==
    TokenRejected
        => /\ Len(calls) <= 1
           /\ pc # "done"
           /\ Len(calls) = 1
                => /\ ~calls[1].ok
                   /\ calls[1].line = Prog(script)[1].line
                   /\ pc \in {"exited", "crashed"}
                   /\ exitStatus = 1

C3_Witness ==
    TokenRejected /\ script = 1 /\ Len(calls) = 1 /\ pc = "exited" /\ exitStatus = 1

\* C4: no failure of a remote call leaves main() as an uncaught exception.
C4_NoUncaughtRemoteFailure == uncaught # "remote"

\* C5 as stated: a call site at which a call has failed is attempted exactly
\* once in the execution.
C5_Original ==
    \A i \in DOMAIN calls : ~calls[i].ok => SiteCount(calls[i].line) = 1

\* C5 amended: a failed call is never followed by a call from the same site
\* or by the same request; after it the execution has ended or stands at a
\* later site; and outside the polling loop of script 11 the failing site has
\* been attempted exactly once.
C5_NoRetry ==
    \A i \in DOMAIN calls :
        ~calls[i].ok =>
            /\ \A j \in DOMAIN calls :
                   j > i => /\ calls[j].line # calls[i].line
                            /\ << calls[j].op, calls[j].arg >> # << calls[i].op, calls[i].arg >>
            /\ \/ pc \in {"exited", "crashed", "done"}
               \/ ip > Len(Prog(script))
               \/ Prog(script)[ip].line > calls[i].line
            /\ (script = 11 /\ calls[i].line = 166) \/ SiteCount(calls[i].line) = 1

C5_Witness ==
    /\ script = 11 /\ pc = "done"
    /\ \E i \in DOMAIN calls : ~calls[i].ok /\ i < Len(calls)

\* C6: the monitoring loop of script 11 is bounded: elapsed is an even value
\* from 0 to 60, equal to poll_interval times the number of sleeps, and there
\* are at most 30 status fetches and at most 30 sleeps.
C6_PollingBounded ==
    script = 11
        => /\ elapsed \in {2 * k : k \in 0..30}
           /\ elapsed = sleeps * poll_interval
           /\ PollCount <= 30
           /\ sleeps <= 30
           /\ PollCount <= sleeps + 1

C6_Witness ==
    script = 11 /\ PollCount = 30 /\ sleeps = 30 /\ elapsed = 60 /\ pc = "done"

\* C7 as stated: whenever script 11 has reached the statistics, log and
\* dataset steps, the run is in a terminal status.
C7_Original ==
    (script = 11 /\ "statistics" \in printed) => runStatus \in TerminalStatuses

\* C7 amended: whenever script 11 has reached the statistics, log and dataset
\* steps, either the run is in a terminal status or the polling loop ended at
\* its ceiling (elapsed = max_wait, 30 sleeps) on a non-terminal poll.
C7_FinishedOrCeiling ==
    (script = 11 /\ "statistics" \in printed)
        => \/ runStatus \in TerminalStatuses
           \/ /\ elapsed = max_wait
              /\ sleeps = 30
              /\ status \in TransientStatuses

C7_Witness ==
    /\ script = 11 /\ "output" \in printed
    /\ runStatus \in TransientStatuses /\ elapsed = max_wait

\* C8: script 11 issues no abort, resurrect, metamorph or reboot; its calls
\* are list, start, get, log and iterate_items, with at most one start.
C8_NeverCancels ==
    script = 11
        => /\ \A i \in DOMAIN calls :
                 /\ calls[i].op \notin {"run.abort", "run.resurrect", "run.metamorph", "run.reboot"}
                 /\ calls[i].op \in {"runs.list", "actor.start", "run.get", "log.get",
                                     "dataset.iterate_items"}
           /\ Cardinality({i \in DOMAIN calls : calls[i].op = "actor.start"}) <= 1

C8_Witness ==
    /\ script = 11 /\ pc = "done" /\ sleeps = 30
    /\ final_status \in TransientStatuses
    /\ Cardinality({i \in DOMAIN calls : calls[i].op = "actor.start"}) = 1

\* C9: in scripts 02 to 08, once an empty dataset has been read nothing is
\* raised, no table, aggregate or detail view is printed, and the script ends
\* with the summary panel showing 0 and exit status 0.
C9_EmptyResultSet ==
    (script \in ActorScripts /\ "results" \in printed /\ items = <<>>)
        => /\ uncaught = "none"
           /\ pc \in {"run", "done"}
           /\ printed \cap {"table", "aggregate", "detail"} = {}
           /\ IF pc = "done"
              THEN "summary" \in printed /\ summaryCount = 0 /\ exitStatus = 0
              ELSE exitStatus = -1

C9_Witness ==
    /\ script = 8 /\ "results" \in printed /\ items = <<>>
    /\ pc = "done" /\ summaryCount = 0 /\ exitStatus = 0

\* C10: for a non-negative integer n, format_number prints n itself below
\* 1000, a K form with mantissa from 1.0 to 999.9 from 1000 to 999999, and an
\* M form from 1000000 on; 999 -> 999, 1000 -> 1.0K, 1000000 -> 1.0M.
C10_FormatBoundaries ==
    (pc = "fmt_done" /\ num.isnum)
        => /\ num.val < 1000
                => fmtOut = [form |-> "plain", whole |-> num.val, frac |-> -1]
           /\ (num.val >= 1000 /\ num.val < 1000000)
                => /\ fmtOut.form = "K"
                   /\ fmtOut.whole >= 1 /\ fmtOut.whole <= 999
                   /\ fmtOut.frac \in 0..9
           /\ num.val >= 1000000
                => fmtOut.form = "M" /\ fmtOut.whole >= 1 /\ fmtOut.frac \in 0..9
           /\ num.val = 1000 => fmtOut = [form |-> "K", whole |-> 1, frac |-> 0]
           /\ num.val = 1000000 => fmtOut = [form |-> "M", whole |-> 1, frac |-> 0]

\* C11 as stated: every value of at most L characters is shown unchanged and
\* every longer one as its first L characters and "...", within max_width
C11_Original ==
    pc = "cell_done" =>
        /\ Len(text) <= column.limit => cell = text
        /\ Len(text) > column.limit =>
               cell = SubSeq(text, 1, column.limit) \o << ".", ".", "." >>
        /\ Len(cell) <= column.limit + 3
        /\ column.limit + 3 = column.max_width

\* C11: a non-empty value of at most L characters is shown unchanged, a longer
\* one as its first L characters followed by "...", never more than L + 3 =
\* max_width characters; an empty value is shown empty in scripts 02, 03 and
\* 08 and as the placeholder of the column in scripts 05, 06 and 07
C11_Truncation ==
    pc = "cell_done" =>
        /\ (text # <<>> /\ Len(text) <= column.limit) => cell = text
        /\ Len(text) > column.limit =>
               cell = SubSeq(text, 1, column.limit) \o << ".", ".", "." >>
        /\ text = <<>> =>
               cell = (CASE script = 5 -> NoCaption
                         [] script = 6 -> NoDescription
                         [] script = 7 -> NoText
                         [] OTHER -> <<>>)
        /\ Len(cell) <= column.limit + 3
        /\ column.limit + 3 = column.max_width

C11_Witness ==
    /\ pc = "cell_done"
    /\ script = 2 /\ column.field = "url"
    /\ Len(text) = 48
    /\ Len(cell) = 50
    /\ text[47] = "b" /\ cell[47] = "b" /\ cell[48] = "."

\* C12: scripts 02 to 08 load the token and construct the client before the
\* one actor invocation, read the dataset only after that invocation has
\* returned and address it by the id the invocation returned, and print the
\* summary last; an execution that has a token invokes the actor exactly once
C12_FixedOrder ==
    script \in 2..8 =>
        /\ calls # <<>> => (~api_token.none /\ api_token.str # <<>> /\ client)
        /\ Len(calls) <= 2
        /\ Len(calls) >= 1 => calls[1].op = "actor.call"
        /\ Len(calls) = 2 =>
              /\ calls[2].op = "dataset.iterate_items"
              /\ calls[1].ok
              /\ calls[1].result \in DatasetIds
              /\ calls[2].target = calls[1].result
        /\ "results" \in printed => (Len(calls) = 2 /\ calls[2].ok)
        /\ "summary" \in printed =>
              (Len(calls) = 2 /\ calls[2].ok /\ pc = "done")
        /\ (pc \in {"done", "exited", "crashed"} /\ ~api_token.none
                /\ api_token.str # <<>>) =>
              Cardinality({i \in DOMAIN calls : calls[i].op = "actor.call"}) = 1

C12_Witness ==
    /\ script = 7
    /\ pc = "done"
    /\ Len(calls) = 2
    /\ calls[1].result = "ds2"
    /\ calls[2].target = "ds2"
    /\ "summary" \in printed

IssuedOps == {calls[i].op : i \in DOMAIN calls}
AllReturned == \A i \in DOMAIN calls : calls[i].ok

\* C13 as stated, on the scripts that present these operations: an execution
\* of script 11 that runs to its end has issued an abort of a run, and one of
\* script 12 has issued an update of a schedule and a list or create of a
\* webhook
C13_Original ==
    (pc = "done" /\ AllReturned) =>
        /\ script = 11 => "run.abort" \in IssuedOps
        /\ script = 12 =>
              /\ "schedule.update" \in IssuedOps
              /\ {"webhooks.list", "webhooks.create"} \cap IssuedOps # {}

\* the operations a script issues when every call returns
C13_Ops(s) ==
    CASE s = 1 -> {"user.get", "actors.list"}
      [] s \in 2..8 -> {"actor.call", "dataset.iterate_items"}
      [] s = 9 -> {"datasets.list", "datasets.get_or_create",
                   "dataset.push_items", "dataset.list_items",
                   "dataset.iterate_items", "dataset.get"}
      [] s = 10 -> {"key_value_stores.list", "key_value_stores.get_or_create",
                    "store.set_record", "store.get_record", "store.list_keys",
                    "store.delete_record", "store.get"}
      [] s = 11 -> {"runs.list", "actor.start", "run.get", "log.get",
                    "dataset.iterate_items"}
      [] s = 12 -> {"schedules.list", "schedules.create", "schedule.get",
                    "schedule.delete"}

\* C13: the operations issued are get current user, list/run/start/get of an
\* actor or run (and its log), list/create/iterate/push/get on a dataset,
\* get/set/delete/list-keys on a key-value store and list/create/get/delete of
\* a schedule, each issued by every execution of its script in which all
\* calls return; no script ever issues an abort of a run, an update of a
\* schedule or a list or create of a webhook
C13_IssuedOperations ==
    /\ IssuedOps \subseteq C13_Ops(script)
    /\ IssuedOps \cap {"run.abort", "run.resurrect", "schedule.update",
                       "webhooks.list", "webhooks.create"} = {}
    /\ (pc = "done" /\ AllReturned) => IssuedOps = C13_Ops(script)

C13_Witness ==
    /\ script = 12
    /\ pc = "done"
    /\ AllReturned
    /\ IssuedOps = {"schedules.list", "schedules.create", "schedule.get",
                    "schedule.delete"}

\* C14: script 09 pushes its five sample records at most once, exactly once
\* in an execution that runs to its end, and never issues an update or a
\* delete; from the push on the dataset exists and its last five records are
\* the pushed ones in push order (ids 1 to 5)
C14_AppendOnly ==
    script = 9 =>
        LET pushes == {i \in DOMAIN calls : calls[i].op = "dataset.push_items"}
            n == Len(svc.dsRecords)
        IN  /\ Cardinality(pushes) <= 1
            /\ \A i \in DOMAIN calls :
                   calls[i].op \notin {"dataset.delete", "dataset.update",
                                       "dataset.delete_items"}
            /\ (\E i \in pushes : calls[i].ok) =>
                   /\ svc.dsExists
                   /\ n >= 5
                   /\ SubSeq(svc.dsRecords, n - 4, n) = << 1, 2, 3, 4, 5 >>
            /\ pc = "done" => \E i \in pushes : calls[i].ok

C14_Witness ==
    /\ script = 9
    /\ pc = "done"
    /\ svc.dsExists
    /\ svc.dsRecords = << 1, 2, 3, 4, 5 >>
    /\ Len(calls) = 8

\* C15: in script 10, once delete_record("status") has returned, the
\* get_record("status") that follows returns None, the script prints
\* "Not found (deleted)" and never "Still exists", and config, pending_urls,
\* state and metadata are still in the store
C15_DeleteDeletes ==
    (script = 10 /\ \E i \in DOMAIN calls : calls[i].line = 246 /\ calls[i].ok)
        => /\ \E j \in DOMAIN calls : calls[j].line = 242 /\ calls[j].ok
           /\ deleted_value = 0
           /\ "not_found" \in printed
           /\ "still_exists" \notin printed
           /\ svc.kv["status"] = 0
           /\ \A k \in {"config", "pending_urls", "state", "metadata"} :
                  svc.kv[k] # 0

C15_Witness ==
    /\ script = 10
    /\ pc = "done"
    /\ "not_found" \in printed
    /\ svc.kv["status"] = 0
    /\ svc.kv["state"] = 227
    /\ svc.kv["config"] = 123

\* C16: in script 11 a poll that returns SUCCEEDED, FAILED, ABORTED or
\* TIMED-OUT sets progress to 100 and leaves the loop without another sleep;
\* a poll that returns any other status is followed by one sleep of
\* poll_interval and the loop test; the loop is left only after such a final
\* poll or when elapsed has reached max_wait
C16_EarlyExit ==
    [][ script = 11 =>
          LET polled == /\ Len(calls') = Len(calls) + 1
                        /\ calls'[Len(calls')].line = 166
                        /\ calls'[Len(calls')].ok
              final == status' \in {"SUCCEEDED", "FAILED", "ABORTED", "TIMED-OUT"}
          IN  /\ (polled /\ final) =>
                    /\ progress' = 100
                    /\ sleeps' = sleeps /\ elapsed' = elapsed
                    /\ ip' = ip + 1
              /\ (polled /\ ~final) =>
                    /\ sleeps' = sleeps + 1
                    /\ elapsed' = elapsed + poll_interval
                    /\ ip' = ip
                    /\ progress' < 100
              /\ (ip = 3 /\ ip' = 4) =>
                    \/ polled /\ final
                    \/ elapsed >= max_wait /\ calls' = calls
    ]_vars

C16_Witness ==
    /\ script = 11
    /\ ip = 4
    /\ status = "TIMED-OUT"
    /\ progress = 100
    /\ sleeps = 2 /\ elapsed = 4
    /\ Len(calls) = 5

\* C17: in scripts 02 to 08 an actor invocation that raises ends the
\* execution with exit status 1 through sys.exit, no dataset is fetched, and
\* neither the results section nor the completion panel is printed
C17_InvocationFailureExits ==
    (script \in 2..8
        /\ \E i \in DOMAIN calls : calls[i].op = "actor.call" /\ ~calls[i].ok)
      => /\ pc = "exited"
         /\ exitStatus = 1
         /\ uncaught = "none"
         /\ Len(calls) = 1
         /\ printed \cap {"completed", "results", "table", "aggregate",
                          "detail", "summary"} = {}
         /\ "call_error" \in printed
         /\ summaryCount = -1

C17_Witness ==
    /\ script = 4
    /\ accepted
    /\ Len(calls) = 1
    /\ calls[1].line = 110 /\ ~calls[1].ok
    /\ pc = "exited" /\ exitStatus = 1

\* C18: in script 01 a failure of the get-current-user call ends the
\* execution with exit status 1 and no actor listing is attempted; a failure
\* of the list-actors call is logged, nothing is left to run but the success
\* panel, and the execution ends with it and with exit status 0
C18_TwoFailures ==
    script = 1 =>
        /\ (\E i \in DOMAIN calls : calls[i].line = 76 /\ ~calls[i].ok) =>
              /\ pc = "exited" /\ exitStatus = 1
              /\ Len(calls) = 1
              /\ "call_error" \in printed
              /\ "summary" \notin printed
        /\ (\E i \in DOMAIN calls : calls[i].line = 110 /\ ~calls[i].ok) =>
              /\ Len(calls) = 2 /\ calls[1].line = 76 /\ calls[1].ok
              /\ "call_note" \in printed
              /\ uncaught = "none"
              /\ \/ pc = "run" /\ ip = 3 /\ exitStatus = -1
                 \/ pc = "done" /\ exitStatus = 0 /\ "summary" \in printed

C18_Witness ==
    /\ script = 1
    /\ pc = "done"
    /\ Len(calls) = 2
    /\ calls[1].ok /\ ~calls[2].ok
    /\ printed = {"token_echo", "call_note", "summary"}

\* C19: in script 12 a failing schedule creation is logged and leaves
\* schedule_id empty (None); from then on no get and no delete of a schedule
\* is issued, no call is left to fail, and the execution ends with the
\* completion panel and exit status 0
C19_DegradedContinuation ==
    (script = 12
        /\ \E i \in DOMAIN calls : calls[i].op = "schedules.create" /\ ~calls[i].ok)
      => /\ schedule_id = ""
         /\ "call_note" \in printed
         /\ \A i \in DOMAIN calls :
                calls[i].op \notin {"schedule.get", "schedule.delete"}
         /\ Len(calls) = 2
         /\ uncaught = "none"
         /\ svc.schedules = {}
         /\ \/ pc = "run" /\ exitStatus = -1
            \/ pc = "done" /\ exitStatus = 0 /\ "summary" \in printed

C19_Witness ==
    /\ script = 12
    /\ accepted
    /\ pc = "done"
    /\ Len(calls) = 2
    /\ calls[2].line = 135 /\ ~calls[2].ok
    /\ schedule_id = ""
    /\ exitStatus = 0

\* C20: in script 12, every execution in which the schedule creation has
\* succeeded has, when it ends, issued a delete for the schedule id the
\* creation returned
C20_AlwaysCleansUp ==
    (script = 12 /\ pc \in {"done", "exited", "crashed"}) =>
        \A i \in DOMAIN calls :
            (calls[i].op = "schedules.create" /\ calls[i].ok) =>
                \E j \in DOMAIN calls :
                    /\ j > i
                    /\ calls[j].op = "schedule.delete"
                    /\ calls[j].target = calls[i].result

\* C21: every schedule script 12 has on the account is disabled, from its
\* creation to its deletion, and the script issues no update of a schedule;
\* the service starts runs for enabled schedules only
C21_NeverEnabled ==
    script = 12 =>
        /\ \A x \in svc.schedules : x.is_enabled = FALSE
        /\ \A i \in DOMAIN calls :
               calls[i].op \notin {"schedule.update", "schedules.update"}
        /\ Cardinality(svc.schedules) <= 1

C21_Witness ==
    /\ script = 12
    /\ Len(calls) = 3
    /\ calls[3].op = "schedule.get" /\ calls[3].ok
    /\ svc.schedules = {[id |-> "sch2", is_enabled |-> FALSE]}

\* C22: in script 10 the read at line 231 returns the state written at line
\* 227 (itemsProcessed 200, currentPage 10); from the last write of Step 3 to
\* the delete of Step 7 the store holds the same five keys, before and after
\* the update; at the end it holds exactly config, pending_urls, state and
\* metadata
C22_Overwrite ==
    script = 10 =>
        LET returned(l) == \E i \in DOMAIN calls : calls[i].line = l /\ calls[i].ok
            keys == {k \in DOMAIN svc.kv : svc.kv[k] # 0}
        IN  /\ returned(231) =>
                  /\ new_state.itemsProcessed = 200
                  /\ new_state.currentPage = 10
            /\ (returned(160) /\ ~returned(242)) =>
                  keys = {"config", "status", "pending_urls", "state", "metadata"}
            /\ pc = "done" =>
                  keys = {"config", "pending_urls", "state", "metadata"}

C22_Witness ==
    /\ script = 10
    /\ pc = "done"
    /\ new_state = [itemsProcessed |-> 200, currentPage |-> 10]
    /\ svc.kv["state"] = 227
    /\ svc.kv["status"] = 0
    /\ Len(calls) = 16

\* C23: in scripts 02 to 08, once the actor invocation has returned, whatever
\* the final status of the run, the run is marked as completed, the next call
\* reads the dataset the run named, and an execution that ends without an
\* exception ends with the completion panel and exit status 0
C23_StatusIgnored ==
    (script \in 2..8 /\ Len(calls) >= 1 /\ calls[1].ok) =>
        /\ runStatus \in {"SUCCEEDED", "FAILED", "ABORTED", "TIMED-OUT"}
        /\ "completed" \in printed
        /\ "call_error" \notin printed
        /\ Len(calls) = 1 => (pc = "run" /\ ip = 2)
        /\ Len(calls) >= 2 =>
              /\ calls[2].op = "dataset.iterate_items"
              /\ calls[2].target = calls[1].result
        /\ pc \in {"run", "done", "crashed"}
        /\ pc = "crashed" =>
              \/ uncaught = "remote" /\ Len(calls) = 2 /\ ~calls[2].ok
              \/ uncaught = "local" /\ Len(calls) = 2 /\ calls[2].ok
        /\ pc = "done" =>
              /\ exitStatus = 0
              /\ Len(calls) = 2 /\ calls[2].ok
              /\ "summary" \in printed
              /\ "results" \in printed

C23_Witness ==
    /\ script = 6
    /\ runStatus = "FAILED"
    /\ pc = "done"
    /\ {"completed", "results", "summary"} \subseteq printed
    /\ exitStatus = 0

\* C24: in script 11, once the fetch after the loop has returned: if the last
\* poll returned a terminal status, the loop ended on it and the final status
\* printed is that status; otherwise the loop ended at the ceiling and the
\* final status is whatever the later fetch returned
C24_FinalStatus ==
    (script = 11 /\ "final_status" \in printed) =>
        LET ended == status \in {"SUCCEEDED", "FAILED", "ABORTED", "TIMED-OUT"}
        IN  /\ ended => (final_status = status /\ progress = 100)
            /\ ~ended =>
                  /\ elapsed >= max_wait
                  /\ final_status \in
                        {"SUCCEEDED", "FAILED", "ABORTED", "TIMED-OUT",
                         "READY", "RUNNING", "ABORTING", "TIMING-OUT"}

C24_Witness ==
    /\ script = 11
    /\ "final_status" \in printed
    /\ status = "ABORTED"
    /\ final_status = "ABORTED"
    /\ sleeps = 1
    /\ elapsed < max_wait

\* C25: for every non-empty result set of scripts 05, 06, 07 and 08, with
\* counts and prices that are zero, absent or not numbers, no aggregate
\* divides by zero: 05 and 07 divide by the positive item count, the TikTok
\* rate is 0 when the total of views is 0, and the price statistics are
\* printed only when a numeric price exists
C25_NoDivisionByZero ==
    (pc = "agg_done" /\ posts # <<>>) =>
        LET noViews == \A i \in DOMAIN posts :
                           posts[i].views.kind # "int" \/ posts[i].views.val = 0
            noPrice == \A i \in DOMAIN posts :
                           posts[i].price.kind \notin {"num", "dict"}
        IN  /\ ~agg.raised
            /\ script \in {5, 7} => agg.shown
            /\ script = 6 => (agg.shown /\ (noViews => agg.val = 0))
            /\ script = 8 => (agg.shown <=> ~noPrice)

C25_Witness ==
    /\ pc = "agg_done"
    /\ script = 6
    /\ Len(posts) = 2
    /\ posts[1].views = [kind |-> "int", val |-> 0]
    /\ posts[2].views = [kind |-> "other", val |-> 0]
    /\ posts[1].likes = [kind |-> "int", val |-> 2]
    /\ agg = [raised |-> FALSE, shown |-> TRUE, val |-> 0]

\* C26: in script 08, for every product record, the detail view of the first
\* product is rendered without an exception, a record without reviewsCount
\* included
C26_DetailNeverRaises ==
    (script = 8 /\ items # <<>> /\ "detail" \in printed) =>
        /\ uncaught # "local"
        /\ pc # "crashed"

\* C27: the text script 01 prints for a non-empty token leaves out at least
\* one character of the token: it shows fewer characters of the token than
\* the token has, and does not begin with the whole token
C27_NeverWholeToken ==
    (script = 1 /\ "token_echo" \in printed) =>
        LET n == Len(api_token.str)
        IN  /\ Len(token_echo) - 3 < n
            /\ SubSeq(token_echo, 1, n) # api_token.str

\* C28: in script 07, for a result set of n > 0 tweets the table has
\* min(15, n) rows, row i numbered i and showing the i-th tweet of the
\* dataset, while the totals and the average are taken over all n tweets and
\* the closing panel reports n
C28_FirstFifteen ==
    (script = 7 /\ pc = "panel_done" /\ posts # <<>>) =>
        LET n == Len(posts)
            distinct == \A i \in 1..n : posts[i].likes = [kind |-> "int", val |-> i]
        IN  /\ Len(rows) = (IF n < 15 THEN n ELSE 15)
            /\ \A i \in 1..Len(rows) : rows[i].no = i /\ rows[i].item = posts[i]
            /\ distinct =>
                  /\ totals.likes = (n * (n + 1)) \div 2
                  /\ agg.val = (totals.likes + totals.second) \div n
            /\ ~agg.raised /\ agg.shown
            /\ summaryCount = n

C28_Witness ==
    /\ script = 7
    /\ pc = "panel_done"
    /\ Len(posts) = 17
    /\ Len(rows) = 15
    /\ rows[15].item.likes.val = 15
    /\ totals.likes = 153
    /\ agg.val = 9
    /\ summaryCount = 17

\* C29: under every interleaving of two executions of script 09 the two work
\* on different datasets, and each reads back in Step 4 and Step 6 an item
\* count of five, all its own records, the count its panel reports
C29_OwnDataset ==
    /\ (execs[1].name # -1 /\ execs[2].name # -1) => execs[1].name # execs[2].name
    /\ \A p \in {1, 2} :
           /\ execs[p].total \in {-1, 5}
           /\ execs[p].iterated \in {-1, 5}
           /\ execs[p].itemCount \in {-1, 5}
           /\ execs[p].pc = "done" =>
                  /\ execs[p].summary = execs[p].itemCount
                  /\ \A i \in DOMAIN account[execs[p].name].records :
                         account[execs[p].name].records[i].owner = p

====
